---- MODULE Spec2Model ----
(***************************************************************************)
(* Contact Center Operation Insights, React front end.                     *)
(*                                                                         *)
(* The model covers the client components mounted by App (FileUpload,     *)
(* TextInsights, and under AudioInsights the whisper, Gemini and           *)
(* diarization uploads), their handlers, the requests they leave in       *)
(* flight, and the normalization of the optionally-stringified insight     *)
(* fields.                                                                 *)
(*                                                                         *)
(* JavaScript values are tagged tuples <<tag, payload>>.  A JavaScript     *)
(* string is the sequence of lexical tokens a JSON lexer reads from it, so *)
(* that JSON.parse is a real parser over that sequence and not the         *)
(* identity: <<"w", x>> is a bare word, <<"n", k>> a number literal,       *)
(* <<"q", s>> a double-quoted literal whose decoded content is the string  *)
(* s, and <<"{">>, <<"}">>, <<"[">>, <<"]">>, <<":">>, <<",">> the         *)
(* punctuation.                                                            *)
(***************************************************************************)
EXTENDS Integers, Sequences, FiniteSets, TLC

(* ------------------------------------------------------------------ *)
(* JavaScript values                                                   *)
(* ------------------------------------------------------------------ *)

JUndef == <<"undefined">>
JNull == <<"null">>
JBool(b) == <<"bool", b>>
JNum(n) == <<"num", n>>
JStr(s) == <<"str", s>>
JArr(elems) == <<"arr", elems>>
JObj(pairs) == <<"obj", pairs>>

IsString(v) == v[1] = "str"

\* typeof v === 'object' (null included, as in JavaScript)
IsObjectType(v) == v[1] \in {"obj", "arr", "null"}

\* JavaScript truthiness, as used by `x && (...)` in JSX
Truthy(v) ==
  CASE v[1] = "undefined" -> FALSE
    [] v[1] = "null" -> FALSE
    [] v[1] = "bool" -> v[2]
    [] v[1] = "num" -> v[2] # 0
    [] v[1] = "str" -> Len(v[2]) > 0
    [] OTHER -> TRUE

(* tokens of a string *)
TW(x) == <<"w", x>>
TN(k) == <<"n", k>>
TQ(s) == <<"q", s>>
LBrace == <<"{">>
RBrace == <<"}">>
LBrack == <<"[">>
RBrack == <<"]">>
Colon == <<":">>
Comma == <<",">>

\* the string made of one bare word, e.g. Word("High") is the text High
Word(x) == <<TW(x)>>

\* property read obj.key; undefined when v is no object or has no such key
Get(v, key) ==
  IF v[1] = "obj" /\ \E i \in 1..Len(v[2]) : v[2][i][1] = key
  THEN v[2][CHOOSE i \in 1..Len(v[2]) : v[2][i][1] = key][2]
  ELSE JUndef

\* property write obj.key = val (in place when the key exists, appended otherwise)
Put(v, key, val) ==
  IF \E i \in 1..Len(v[2]) : v[2][i][1] = key
  THEN JObj([i \in 1..Len(v[2]) |->
              IF v[2][i][1] = key THEN <<key, val>> ELSE v[2][i]])
  ELSE JObj(Append(v[2], <<key, val>>))

(* ------------------------------------------------------------------ *)
(* JSON.parse                                                          *)
(* ------------------------------------------------------------------ *)

ParseFail == [ok |-> FALSE, val |-> JUndef, rest |-> <<>>]
ParseOk(v, r) == [ok |-> TRUE, val |-> v, rest |-> r]

RECURSIVE ParseValue(_)
RECURSIVE ParseElements(_, _)
RECURSIVE ParseMembers(_, _)

\* elements of an array after "[" or ","; acc holds the elements read so far
ParseElements(ts, acc) ==
  LET e == ParseValue(ts) IN
  IF ~e.ok \/ e.rest = <<>> THEN ParseFail
  ELSE LET sep == Head(e.rest)[1] IN
       IF sep = "]" THEN ParseOk(JArr(Append(acc, e.val)), Tail(e.rest))
       ELSE IF sep = "," THEN ParseElements(Tail(e.rest), Append(acc, e.val))
       ELSE ParseFail

\* members of an object after "{" or ","; acc is the object built so far
ParseMembers(ts, acc) ==
  IF Len(ts) < 3 \/ Head(ts)[1] # "q" \/ ts[2][1] # ":" THEN ParseFail
  ELSE LET key == Head(ts)[2]
           e == ParseValue(SubSeq(ts, 3, Len(ts)))
       IN IF ~e.ok \/ e.rest = <<>> THEN ParseFail
          ELSE LET sep == Head(e.rest)[1]
                   obj == Put(acc, key, e.val)
               IN IF sep = "}" THEN ParseOk(obj, Tail(e.rest))
                  ELSE IF sep = "," THEN ParseMembers(Tail(e.rest), obj)
                  ELSE ParseFail

ParseValue(ts) ==
  IF ts = <<>> THEN ParseFail
  ELSE LET t == Head(ts)
           r == Tail(ts)
       IN CASE t[1] = "w" ->
                 IF t[2] = "null" THEN ParseOk(JNull, r)
                 ELSE IF t[2] = "true" THEN ParseOk(JBool(TRUE), r)
                 ELSE IF t[2] = "false" THEN ParseOk(JBool(FALSE), r)
                 ELSE ParseFail
            [] t[1] = "n" -> ParseOk(JNum(t[2]), r)
            [] t[1] = "q" -> ParseOk(JStr(t[2]), r)
            [] t[1] = "[" ->
                 IF r # <<>> /\ Head(r)[1] = "]"
                 THEN ParseOk(JArr(<<>>), Tail(r))
                 ELSE ParseElements(r, <<>>)
            [] t[1] = "{" ->
                 IF r # <<>> /\ Head(r)[1] = "}"
                 THEN ParseOk(JObj(<<>>), Tail(r))
                 ELSE ParseMembers(r, JObj(<<>>))
            [] OTHER -> ParseFail

\* JSON.parse(s) of a string s: the value, or a thrown SyntaxError
JSONparse(s) ==
  LET p == ParseValue(s) IN
  IF p.ok /\ p.rest = <<>> THEN [ok |-> TRUE, val |-> p.val]
  ELSE [ok |-> FALSE, val |-> JUndef]

\* String(v): the coercion JSON.parse applies to an argument that is no string
RECURSIVE JsString(_)
RECURSIVE JoinElems(_, _)
JoinElems(elems, i) ==
  IF i > Len(elems) THEN <<>>
  ELSE (IF elems[i][1] \in {"null", "undefined"} THEN <<>> ELSE JsString(elems[i]))
       \o (IF i < Len(elems) THEN <<Comma>> ELSE <<>>)
       \o JoinElems(elems, i + 1)

JsString(v) ==
  CASE v[1] = "undefined" -> Word("undefined")
    [] v[1] = "null" -> Word("null")
    [] v[1] = "bool" -> IF v[2] THEN Word("true") ELSE Word("false")
    [] v[1] = "num" -> <<TN(v[2])>>
    [] v[1] = "str" -> v[2]
    [] v[1] = "arr" -> JoinElems(v[2], 1)
    [] OTHER -> <<LBrack, TW("object"), TW("Object"), RBrack>>

\* JSON.parse(x) for any argument x, coerced to a string first
JSONparseAny(v) == JSONparse(JsString(v))

\* JSON.stringify(v) of a value (undefined members are dropped)
RECURSIVE Stringify(_)
RECURSIVE StringifyElems(_, _)
RECURSIVE StringifyMembers(_, _, _)
StringifyElems(elems, i) ==
  IF i > Len(elems) THEN <<>>
  ELSE (IF elems[i][1] = "undefined" THEN Word("null") ELSE Stringify(elems[i]))
       \o (IF i < Len(elems) THEN <<Comma>> ELSE <<>>)
       \o StringifyElems(elems, i + 1)

StringifyMembers(pairs, i, first) ==
  IF i > Len(pairs) THEN <<>>
  ELSE IF pairs[i][2][1] = "undefined" THEN StringifyMembers(pairs, i + 1, first)
  ELSE (IF first THEN <<>> ELSE <<Comma>>)
       \o <<TQ(pairs[i][1]), Colon>> \o Stringify(pairs[i][2])
       \o StringifyMembers(pairs, i + 1, FALSE)

Stringify(v) ==
  CASE v[1] = "null" -> Word("null")
    [] v[1] = "bool" -> IF v[2] THEN Word("true") ELSE Word("false")
    [] v[1] = "num" -> <<TN(v[2])>>
    [] v[1] = "str" -> <<TQ(v[2])>>
    [] v[1] = "arr" -> <<LBrack>> \o StringifyElems(v[2], 1) \o <<RBrack>>
    [] v[1] = "obj" -> <<LBrace>> \o StringifyMembers(v[2], 1, TRUE) \o <<RBrace>>
    [] OTHER -> <<>>

(* ------------------------------------------------------------------ *)
(* Result normalizer                                                   *)
(* ------------------------------------------------------------------ *)

\* faulty variant: parse again while the parse yields a string that parses
parseJsonSafely_Reparse(value) ==
  IF IsString(value) /\ JSONparse(value[2]).ok
  THEN LET once == JSONparse(value[2]).val IN
       IF IsString(once) /\ JSONparse(once[2]).ok
       THEN JSONparse(once[2]).val ELSE once
  ELSE value

\* faulty variant: a string that does not parse comes back JSON-encoded
parseJsonSafely_QuoteOnFail(value) ==
  IF IsString(value)
  THEN (IF JSONparse(value[2]).ok THEN JSONparse(value[2]).val
        ELSE JStr(Stringify(value)))
  ELSE value

parseJsonSafely(value) ==
  IF IsString(value)
  THEN (IF JSONparse(value[2]).ok THEN JSONparse(value[2]).val ELSE value)
  ELSE value

\* the names of the three fields that may arrive stringified
Fields == {"case_priority_level", "sentiment", "dialogue_history"}

(* ------------------------------------------------------------------ *)
(* Inputs: payloads, files, texts, failures                            *)
(* ------------------------------------------------------------------ *)

\* a property name
K(x) == Word(x)

PriorityObj ==
  JObj(<< <<K("priority_category"), JStr(Word("High"))>>,
          <<K("priority_reason"), JStr(Word("r"))>> >>)

SentimentObj ==
  JObj(<< <<K("sentiment_category"), JStr(Word("Positive"))>>,
          <<K("sentiment_reasoning"), JStr(Word("x"))>>,
          <<K("sentiment_distribution"), JArr(<<>>)>> >>)

DialogueObj ==
  JObj(<< <<K("dialogue_history"),
            JArr(<< JObj(<< <<K("turn_id"), JNum(1)>>,
                            <<K("speaker"), JStr(Word("customer"))>>,
                            <<K("text"), JStr(Word("hi"))>> >>) >>)>> >>)

StructuredOf(f) ==
  CASE f = "case_priority_level" -> PriorityObj
    [] f = "sentiment" -> SentimentObj
    [] OTHER -> DialogueObj

\* the text High: not JSON
NotJson == Word("High")
\* the text "1" (with its quotes): JSON for the string 1, which is JSON again
QuotedOne == <<TQ(<<TN(1)>>)>>

\* what the service puts in a field whose structure is obj: the structure,
\* the structure encoded as a JSON string, or a string that is no JSON
FieldValsOf(obj) ==
  { obj, JStr(Stringify(obj)), JStr(NotJson) }
PriorityVals == FieldValsOf(PriorityObj)
SentimentVals == FieldValsOf(SentimentObj)
DialogueVals == FieldValsOf(DialogueObj)
FieldVals(f) ==
  CASE f = "case_priority_level" -> PriorityVals
    [] f = "sentiment" -> SentimentVals
    [] OTHER -> DialogueVals

\* the wider range the normalizer is run over on its own: an absent field,
\* null, a doubly encoded value and the empty string as well
WideValsOf(obj) ==
  FieldValsOf(obj) \cup { JUndef, JNull, JStr(QuotedOne), JStr(<<>>) }

\* an object literal with the absent (undefined) members left out
RECURSIVE Present(_)
Present(pairs) ==
  IF pairs = <<>> THEN <<>>
  ELSE IF Head(pairs)[2][1] = "undefined" THEN Present(Tail(pairs))
  ELSE <<Head(pairs)>> \o Present(Tail(pairs))

InsightsOf(p, s, d) ==
  JObj(Present(<< <<K("case_type"), JStr(Word("Inquiry"))>>,
                  <<K("case_priority_level"), p>>,
                  <<K("sentiment"), s>>,
                  <<K("dialogue_history"), d>>,
                  <<K("summary"), JStr(Word("sum"))>>,
                  <<K("keywords"), JStr(Word("card"))>> >>))

WideInsightPayloads ==
  { InsightsOf(p, s, d) : p \in WideValsOf(PriorityObj),
                          s \in WideValsOf(SentimentObj),
                          d \in WideValsOf(DialogueObj) }

\* the InsightPayload objects of section 3 of the design
InsightPayloads ==
  { InsightsOf(p, s, d) : p \in PriorityVals, s \in SentimentVals,
                          d \in DialogueVals }

WhisperPayloadOf(ins) ==
  JObj(Present(<< <<K("transcription"), JStr(Word("hola"))>>,
                  <<K("translation"), JStr(Word("hello"))>>,
                  <<K("insights"), ins>> >>))

DocPayloads ==
  { JObj(<< <<K("document_type"), JStr(Word("deposit_slip"))>>,
            <<K("raw_text"), JStr(Word("raw"))>>,
            <<K("extracted_json"), JStr(<<LBrace, RBrace>>)>> >>),
    JObj(<< <<K("document_type"), JStr(Word("unknown"))>>,
            <<K("raw_text"), JStr(Word("raw"))>>,
            <<K("extracted_json"), JStr(<<LBrace, RBrace>>)>>,
            <<K("error"), JStr(Word("Unsupported document"))>> >>) }

GeminiPayloads ==
  { JObj(<< <<K("transcription"), JStr(Word("hola"))>>,
            <<K("translation"), JStr(Word("hello"))>> >>) }

DiarizationPayloads ==
  { JObj(<< <<K("speakers"),
              JArr(<< JObj(<< <<K("speaker"), JStr(Word("Speaker 1"))>>,
                              <<K("text"), JStr(Word("hi"))>> >>) >>)>>,
            <<K("speaker_count"), JNum(1)>> >>) }

WhisperPayloads == { WhisperPayloadOf(i) : i \in InsightPayloads \cup {JUndef} }

\* the bodies a 2xx response of component c's endpoint may carry
Payloads(c) ==
  CASE c = "doc" -> DocPayloads
    [] c = "gemini" -> GeminiPayloads
    [] c = "diarization" -> DiarizationPayloads
    [] c = "whisper" -> WhisperPayloads
    [] OTHER -> InsightPayloads

MB == 1024 * 1024
NoFile == [name |-> "", type |-> <<"", "">>, size |-> 0]
\* the files a user may pick or drop; type is the MIME type, split at "/"
Files ==
  { [name |-> "call.wav", type |-> <<"audio", "wav">>, size |-> MB],
    [name |-> "long.wav", type |-> <<"audio", "wav">>, size |-> 100 * MB + 1],
    [name |-> "slip.png", type |-> <<"image", "png">>, size |-> MB],
    [name |-> "scan.png", type |-> <<"image", "png">>, size |-> 15 * MB],
    [name |-> "slip.pdf", type |-> <<"application", "pdf">>, size |-> MB],
    [name |-> "notes.txt", type |-> <<"text", "plain">>, size |-> MB] }

Space == TW(" ")
\* what a user may have in the text area
Texts == { <<>>, <<Space>>, Word("hello"), <<Space, TW("hello"), Space>> }

\* String.prototype.trim
RECURSIVE TrimStart(_)
TrimStart(s) == IF s # <<>> /\ Head(s) = Space THEN TrimStart(Tail(s)) ELSE s
RECURSIVE TrimEnd(_)
TrimEnd(s) ==
  IF s # <<>> /\ s[Len(s)] = Space THEN TrimEnd(SubSeq(s, 1, Len(s) - 1)) ELSE s
Trim(s) == TrimEnd(TrimStart(s))

\* the errors axios.post rejects with: a response with a non-2xx status, a
\* request that got no response (connection refused, timeout), or neither
ServerErrors ==
  { [response |-> TRUE, request |-> TRUE, data |-> d, statusText |-> st,
     message |-> Word("Request failed with status code 500")] :
      d \in { JObj(<< <<K("detail"), JStr(Word("Invalid file"))>> >>),
              JObj(<<>>), JStr(<<>>) },
      st \in { Word("Internal Server Error") } }

NoResponseErrors ==
  { [response |-> FALSE, request |-> TRUE, data |-> JUndef, statusText |-> <<>>,
     message |-> m] :
      m \in { Word("Network Error"), Word("timeout exceeded") } }

SetupErrors ==
  { [response |-> FALSE, request |-> FALSE, data |-> JUndef, statusText |-> <<>>,
     message |-> Word("Invalid URL")] }

AxiosErrors == ServerErrors \cup NoResponseErrors \cup SetupErrors

(* ------------------------------------------------------------------ *)
(* State                                                               *)
(* ------------------------------------------------------------------ *)

\* the most requests the model lets be in flight at once (abandoned ones included)
MaxInflight == 2

DocTimeout == 60000
TextTimeout == 60000
GeminiTimeout == 120000
WhisperTimeout == 120000
DiarizationTimeout == 180000

VARIABLES
  view,          \* App: the view shown ("image", "text", "audio")
  activeTab,     \* AudioInsights: the tab shown
  appResult,     \* App: result, the document payload handed to ResultDisplay
  file,          \* the mounted upload component's file, or NoFile
  text,          \* TextInsights: text
  loading,       \* the mounted component's loading
  error,         \* the mounted component's error ("" is <<>>)
  result,        \* the mounted component's result, or null
  parsedResult,  \* TextInsights: parsedResult
  received,      \* res.data as it arrived, for the payload now held in result
  resultFile,    \* the file of the request whose payload is now held in result
  inflight,      \* the POSTs issued and not settled yet
  player,        \* the audio preview: audioUrl, isPlaying, currentTime
  preview,       \* FileUpload: imageUrl, and imageZoom in hundredths
  norm,          \* the normalizer run on its own (NormSpec only)
  caught,        \* a catch block run on its own (CatchSpec only)
  lookup         \* a colour lookup run on its own (ColourSpec only)

compVars == <<file, text, loading, error, result, parsedResult, received,
              resultFile, player, preview>>
vars == <<view, activeTab, appResult, file, text, loading, error, result,
          parsedResult, received, resultFile, player, preview, inflight, norm,
          caught, lookup>>

Views == {"image", "text", "audio"}
Tabs == {"whisper", "gemini", "diarization"}
AudioComps == Tabs
Comps == {"doc", "text"} \cup AudioComps

\* the component App and AudioInsights render
MountedOf(v, t) == IF v = "image" THEN "doc" ELSE IF v = "text" THEN "text" ELSE t
Mounted == MountedOf(view, activeTab)

NoParsed == [priority |-> JNull, sentiment |-> JNull, dialogue |-> JNull]
\* useState("") for audioUrl, useState(false) for isPlaying, useState(0) for
\* currentTime
NoPlayer == [audioUrl |-> <<>>, isPlaying |-> FALSE, currentTime |-> 0]
\* setImageZoom works on multiples of 0.25, which a double holds exactly: the
\* model counts imageZoom in hundredths, as Math.round(imageZoom * 100) shows it
DefaultZoom == 100
ZoomStep == 25
MinZoom == 25
MaxZoom == 300
\* useState("") for imageUrl, useState(1) for imageZoom
NoPreview == [imageUrl |-> <<>>, imageZoom |-> DefaultZoom]
NormIdle == [stage |-> "idle", input |-> JNull, once |-> JNull, twice |-> JNull]
CaughtIdle == [stage |-> "idle"]
LookupIdle == [stage |-> "idle"]

Init ==
  /\ view = "image"
  /\ activeTab = "whisper"
  /\ appResult = JNull
  /\ player = NoPlayer
  /\ preview = NoPreview
  /\ lookup = LookupIdle
  /\ file = NoFile
  /\ text = <<>>
  /\ loading = FALSE
  /\ error = <<>>
  /\ result = JNull
  /\ parsedResult = NoParsed
  /\ received = JNull
  /\ resultFile = NoFile
  /\ inflight = <<>>
  /\ norm = NormIdle
  /\ caught = CaughtIdle

\* a component's state right after it mounts (the useState initial values)
FreshComponent ==
  /\ file' = NoFile
  /\ text' = <<>>
  /\ loading' = FALSE
  /\ error' = <<>>
  /\ result' = JNull
  /\ parsedResult' = NoParsed
  /\ received' = JNull
  /\ resultFile' = NoFile
  /\ player' = NoPlayer
  /\ preview' = NoPreview

\* The requests of a component that unmounted stay in flight, and its state
\* setters no longer have any effect.  Only FileUpload's continuation calls
\* something else (onResult, App's setResult): the model keeps its requests
\* and forgets those of the other components, which can change nothing.
RECURSIVE Abandon(_)
Abandon(reqs) ==
  IF reqs = <<>> THEN <<>>
  ELSE IF Head(reqs).comp = "doc"
  THEN <<[Head(reqs) EXCEPT !.live = FALSE]>> \o Abandon(Tail(reqs))
  ELSE Abandon(Tail(reqs))

(* ------------------------------------------------------------------ *)
(* App and AudioInsights: navigation                                   *)
(* ------------------------------------------------------------------ *)

\* App: onClick={() => setView(item.key)}
SetView(v) ==
  /\ norm.stage = "idle"
  /\ v # view
  /\ view' = v
  /\ activeTab' = "whisper"
  /\ FreshComponent
  /\ inflight' = Abandon(inflight)
  /\ UNCHANGED <<lookup, appResult, norm, caught>>

\* AudioInsights: onClick={() => setActiveTab(tab.key)}
SetActiveTab(t) ==
  /\ norm.stage = "idle"
  /\ view = "audio"
  /\ t # activeTab
  /\ activeTab' = t
  /\ FreshComponent
  /\ inflight' = Abandon(inflight)
  /\ UNCHANGED <<lookup, view, appResult, norm, caught>>

(* ------------------------------------------------------------------ *)
(* Input handlers                                                      *)
(* ------------------------------------------------------------------ *)

\* faulty variant: the type check is left out
StartsWithAudio_Unchecked(f) == f.name # ""
\* selectedFile.type.startsWith("audio/")
StartsWithAudio(f) == f.type[1] = "audio"
MaxAudioSize == 100 * MB

AudioTypeMsg == Word("Please select a valid audio file (WAV, MP3, etc.)")
AudioSizeMsg == Word("File size must be less than 100MB")

\* URL.createObjectURL(selectedFile)
ObjectUrl(f) == <<"blob", f.name>>

\* faulty variant: a rejected selection also drops the selected file and
\* its preview
AudioHandleFileChange_DropOnReject(f) ==
  /\ norm.stage = "idle"
  /\ Mounted \in {"whisper", "gemini"}
  /\ IF ~StartsWithAudio(f)
     THEN /\ error' = AudioTypeMsg
          /\ file' = NoFile
          /\ player' = NoPlayer
          /\ UNCHANGED <<result, received, resultFile>>
     ELSE /\ file' = f
          /\ error' = <<>>
          /\ result' = JNull
          /\ received' = JNull
          /\ resultFile' = NoFile
          /\ player' = [audioUrl |-> ObjectUrl(f), isPlaying |-> FALSE,
                         currentTime |-> 0]
  /\ UNCHANGED <<lookup, preview, view, activeTab, appResult, text, loading,
                 parsedResult,
                 inflight, norm, caught>>

\* AudioGemini.handleFileChange, and the same handler of the whisper component
AudioHandleFileChange(f) ==
  /\ norm.stage = "idle"
  /\ Mounted \in {"whisper", "gemini"}
  /\ IF ~StartsWithAudio(f)
     THEN /\ error' = AudioTypeMsg
          /\ UNCHANGED <<file, result, received, resultFile, player>>
     ELSE /\ file' = f
          /\ error' = <<>>
          /\ result' = JNull
          /\ received' = JNull
          /\ resultFile' = NoFile
          /\ player' = [audioUrl |-> ObjectUrl(f), isPlaying |-> FALSE,
                         currentTime |-> 0]
  /\ UNCHANGED <<lookup, preview, view, activeTab, appResult, text, loading,
                 parsedResult,
                 inflight, norm, caught>>

\* AudioDiarization.handleFileChange
DiarizationHandleFileChange(f) ==
  /\ norm.stage = "idle"
  /\ Mounted = "diarization"
  /\ IF ~StartsWithAudio(f)
     THEN /\ error' = AudioTypeMsg
          /\ UNCHANGED <<file, result, received, resultFile, player>>
     ELSE IF f.size > MaxAudioSize
     THEN /\ error' = AudioSizeMsg
          /\ UNCHANGED <<file, result, received, resultFile, player>>
     ELSE /\ file' = f
          /\ error' = <<>>
          /\ result' = JNull
          /\ received' = JNull
          /\ resultFile' = NoFile
          /\ player' = [audioUrl |-> ObjectUrl(f), isPlaying |-> FALSE,
                         currentTime |-> 0]
  /\ UNCHANGED <<lookup, preview, view, activeTab, appResult, text, loading,
                 parsedResult,
                 inflight, norm, caught>>

\* <input type="file" accept="image/*,.pdf">: the files the picker offers
Accepted(f) == f.type[1] = "image" \/ f.type = <<"application", "pdf">>

\* FileUpload.handleFileChange, run when a file is chosen in the picker
DocHandleFileChange(f) ==
  /\ norm.stage = "idle"
  /\ Mounted = "doc"
  /\ Accepted(f)
  /\ file' = f
  /\ error' = <<>>
  /\ preview' = [imageUrl |-> IF f.type[1] = "image" THEN ObjectUrl(f) ELSE <<>>,
                  imageZoom |-> DefaultZoom]
  /\ UNCHANGED <<lookup, view, activeTab, appResult, text, loading, result,
                 parsedResult, received, resultFile, inflight, player,
                 norm, caught>>

\* FileUpload.handleDrop: whatever file is dropped on the zone
DocHandleDrop(f) ==
  /\ norm.stage = "idle"
  /\ Mounted = "doc"
  /\ file' = f
  /\ error' = <<>>
  /\ preview' = [imageUrl |-> IF f.type[1] = "image" THEN ObjectUrl(f) ELSE <<>>,
                  imageZoom |-> DefaultZoom]
  /\ UNCHANGED <<lookup, view, activeTab, appResult, text, loading, result,
                 parsedResult, received, resultFile, inflight, player,
                 norm, caught>>

\* faulty variant: the parsed view survives an edit of the text
HandleTextChange_KeepParsed(t) ==
  /\ norm.stage = "idle"
  /\ Mounted = "text"
  /\ text' = t
  /\ error' = <<>>
  /\ result' = JNull
  /\ received' = JNull
  /\ resultFile' = NoFile
  /\ UNCHANGED <<lookup, preview, view, activeTab, appResult, file, loading,
                 parsedResult,
                 inflight, player, norm, caught>>

\* TextInsights.handleTextChange
HandleTextChange(t) ==
  /\ norm.stage = "idle"
  /\ Mounted = "text"
  /\ text' = t
  /\ error' = <<>>
  /\ result' = JNull
  /\ parsedResult' = NoParsed
  /\ received' = JNull
  /\ resultFile' = NoFile
  /\ UNCHANGED <<lookup, preview, view, activeTab, appResult, file, loading,
                 inflight, player,
                 norm, caught>>

(* ------------------------------------------------------------------ *)
(* handleSubmit: up to the await                                       *)
(* ------------------------------------------------------------------ *)

SelectFileMsg(c) ==
  IF c = "doc" THEN Word("Please select a file first.")
  ELSE Word("Please select an audio file first.")
EnterTextMsg == Word("Please enter some text to analyze.")

\* faulty variant: one timeout for every endpoint
TimeoutOf_Sixty(c) == DocTimeout

TimeoutOf(c) ==
  CASE c = "doc" -> DocTimeout
    [] c = "text" -> TextTimeout
    [] c = "gemini" -> GeminiTimeout
    [] c = "whisper" -> WhisperTimeout
    [] OTHER -> DiarizationTimeout

UrlOf(c) ==
  CASE c = "doc" -> "/image/process-document"
    [] c = "text" -> "/text"
    [] c = "gemini" -> "/audio/gemini"
    [] c = "whisper" -> "/audio/whisper"
    [] OTHER -> "/audio/diarization"

\* the submit button of the upload forms: disabled={loading || !file}
UploadSubmitDisabled_NoLoading == file = NoFile
UploadSubmitDisabled == loading \/ file = NoFile
\* the submit button of TextInsights: disabled={loading || !text.trim()}
TextSubmitDisabled == loading \/ Trim(text) = <<>>

\* axios.post(url, body, {timeout}) called by the mounted component; attempt
\* counts the times the submission has been sent, and superseded tells
\* whether a later document submission has already been answered
Post(c, f, t) ==
  inflight' = Append(inflight,
    [comp |-> c, live |-> TRUE, url |-> UrlOf(c), timeout |-> TimeoutOf(c),
     file |-> f, text |-> t, attempt |-> 1, superseded |-> FALSE])

\* faulty variant: the submission goes out although no file is selected
UploadSubmitEvent_NoCheck ==
  /\ norm.stage = "idle"
  /\ Mounted # "text"
  /\ Len(inflight) < MaxInflight
  /\ error' = <<>>
  /\ loading' = TRUE
  /\ Post(Mounted, file, <<>>)
  /\ UNCHANGED <<lookup, preview, view, activeTab, appResult, file, text,
                 result,
                 parsedResult,
                 received, resultFile, player,
                 norm, caught>>

\* handleSubmit of FileUpload, AudioGemini, the whisper component and
\* AudioDiarization, run for a submit event of the form
UploadSubmitEvent ==
  /\ norm.stage = "idle"
  /\ Mounted # "text"
  /\ IF file = NoFile
     THEN /\ error' = SelectFileMsg(Mounted)
          /\ UNCHANGED <<loading, inflight>>
     ELSE /\ Len(inflight) < MaxInflight
          /\ error' = <<>>
          /\ loading' = TRUE
          /\ Post(Mounted, file, <<>>)
  /\ UNCHANGED <<lookup, preview, view, activeTab, appResult, file, text,
                 result,
                 parsedResult,
                 received, resultFile, player,
                 norm, caught>>

\* the submit event that a click on the enabled submit button fires
UploadHandleSubmit ==
  /\ ~UploadSubmitDisabled
  /\ UploadSubmitEvent

\* TextInsights.handleSubmit, run for a submit event of the form
TextSubmitEvent ==
  /\ norm.stage = "idle"
  /\ Mounted = "text"
  /\ IF Trim(text) = <<>>
     THEN /\ error' = EnterTextMsg
          /\ UNCHANGED <<loading, inflight>>
     ELSE /\ Len(inflight) < MaxInflight
          /\ error' = <<>>
          /\ loading' = TRUE
          /\ Post("text", NoFile, Trim(text))
  /\ UNCHANGED <<lookup, preview, view, activeTab, appResult, file, text,
                 result,
                 parsedResult,
                 received, resultFile, player,
                 norm, caught>>

\* the submit event that a click on the enabled submit button fires
TextHandleSubmit ==
  /\ ~TextSubmitDisabled
  /\ TextSubmitEvent

(* ------------------------------------------------------------------ *)
(* handleSubmit: after the await                                       *)
(* ------------------------------------------------------------------ *)

\* Objects live at addresses, so that two names of one object see each
\* other's writes.  While the whisper continuation runs the heap holds
\* res.data ("data"), the insights object it refers to ("ins"),
\* processedResult ("proc") and, in the faulty variant only, a second
\* insights object ("copy").
Ref(a) == <<"ref", a>>

ResponseHeap(data) ==
  LET ins == Get(data, K("insights")) IN
  IF ins[1] = "obj"
  THEN [data |-> Put(data, K("insights"), Ref("ins")), ins |-> ins,
        proc |-> JUndef, copy |-> JUndef]
  ELSE [data |-> data, ins |-> JUndef, proc |-> JUndef, copy |-> JUndef]

\* faulty variant: a deep copy, processedResult gets an insights object of its own
SpreadCopy_Deep(h) ==
  IF Get(h.data, K("insights"))[1] = "ref"
  THEN [h EXCEPT !.proc = Put(h.data, K("insights"), Ref("copy")), !.copy = h.ins]
  ELSE [h EXCEPT !.proc = h.data]

\* const processedResult = { ...res.data }: the members are copied, and a
\* member that refers to an object refers to the same object in the copy
SpreadCopy(h) == [h EXCEPT !.proc = h.data]

\* if (typeof o.f === 'string') o.f = parseJsonSafely(o.f), o the object at a
AssignParsed(h, a, f) ==
  LET cur == Get(h[a], K(f)) IN
  IF IsString(cur) THEN [h EXCEPT ![a] = Put(h[a], K(f), parseJsonSafely(cur))]
  ELSE h

\* if (processedResult.insights) { ... the three fields ... }
ProcessInsights(h) ==
  LET r == Get(h.proc, K("insights")) IN
  IF r[1] = "ref"
  THEN AssignParsed(
         AssignParsed(
           AssignParsed(h, r[2], "case_priority_level"),
           r[2], "sentiment"),
         r[2], "dialogue_history")
  ELSE h

\* the value of the object at a, its insights member followed
Deref(h, a) ==
  LET r == Get(h[a], K("insights")) IN
  IF r[1] = "ref" THEN Put(h[a], K("insights"), h[r[2]]) ELSE h[a]

\* the whisper component's try block after the await: what processedResult
\* holds, and what setResult(res.data) stores
WhisperTry(data) ==
  LET h == ProcessInsights(SpreadCopy(ResponseHeap(data))) IN
  [processed |-> Deref(h, "proc"), stored |-> Deref(h, "data")]

\* TextInsights.parseJsonFields: the argument of setParsedResult
parseJsonFields(res) ==
  LET p == JSONparseAny(Get(res, K("case_priority_level")))
      s == JSONparseAny(Get(res, K("sentiment")))
      d == JSONparseAny(Get(res, K("dialogue_history")))
  IN IF p.ok /\ s.ok /\ d.ok
     THEN [priority |-> p.val, sentiment |-> s.val, dialogue |-> d.val]
     ELSE NoParsed

NetworkErrorMsg ==
  Word("Network error: Unable to connect to server. Please check if the backend is running.")
ServerErrorPrefix == Word("Server error: ")
FailedPrefix(c) ==
  IF c = "text" THEN Word("Analysis failed: ") ELSE Word("Upload failed: ")

\* axiosError.response.data?.detail || axiosError.response.statusText
DetailOrStatus(e) ==
  LET d == Get(e.data, K("detail")) IN
  IF Truthy(d) THEN d ELSE JStr(e.statusText)

\* faulty variant: the branch for a request without a response is missing
CatchMessage_NoRequestBranch(c, e) ==
  IF e.response THEN ServerErrorPrefix \o JsString(DetailOrStatus(e))
  ELSE FailedPrefix(c) \o e.message

\* faulty variant: TextInsights reports a request without a response as a
\* failed analysis
CatchMessage_TextNetwork(c, e) ==
  IF e.response THEN ServerErrorPrefix \o JsString(DetailOrStatus(e))
  ELSE IF e.request /\ c # "text" THEN NetworkErrorMsg
  ELSE FailedPrefix(c) \o e.message

\* faulty variant: whatever has no response is reported as a network error
CatchMessage_NoClientBranch(c, e) ==
  IF e.response THEN ServerErrorPrefix \o JsString(DetailOrStatus(e))
  ELSE NetworkErrorMsg

\* the catch block of handleSubmit: the argument of setError
CatchMessage(c, e) ==
  IF e.response THEN ServerErrorPrefix \o JsString(DetailOrStatus(e))
  ELSE IF e.request THEN NetworkErrorMsg
  ELSE FailedPrefix(c) \o e.message

\* the sequence s without its i-th element
Remove(s, i) == SubSeq(s, 1, i - 1) \o SubSeq(s, i + 1, Len(s))

\* inflight once its i-th request has been answered with a 2xx response: the
\* request is gone, and the document requests submitted before it have been
\* overtaken
Answered(i) ==
  [k \in 1..(Len(inflight) - 1) |->
     IF k < i /\ inflight[k].comp = "doc" /\ inflight[i].comp = "doc"
     THEN [inflight[k] EXCEPT !.superseded = TRUE]
     ELSE Remove(inflight, i)[k]]

\* the positions in inflight of the mounted component's requests
LiveRequests == { i \in 1..Len(inflight) : inflight[i].live }

\* a 2xx response to a request of the mounted component: the rest of the try
\* block, then finally
SettleSuccess(i, data) ==
  /\ norm.stage = "idle"
  /\ i \in LiveRequests
  /\ data \in Payloads(inflight[i].comp)
  /\ inflight' = Answered(i)
  /\ loading' = FALSE
  /\ CASE inflight[i].comp = "doc" ->
            /\ appResult' = data
            /\ UNCHANGED <<result, parsedResult, received, resultFile>>
       [] inflight[i].comp = "whisper" ->
            /\ result' = WhisperTry(data).stored
            /\ received' = data
            /\ resultFile' = inflight[i].file
            /\ UNCHANGED <<appResult, parsedResult>>
       [] inflight[i].comp = "text" ->
            /\ result' = data
            /\ parsedResult' = parseJsonFields(data)
            /\ received' = data
            /\ resultFile' = inflight[i].file
            /\ UNCHANGED appResult
       [] OTHER ->
            /\ result' = data
            /\ received' = data
            /\ resultFile' = inflight[i].file
            /\ UNCHANGED <<appResult, parsedResult>>
  /\ UNCHANGED <<lookup, preview, view, activeTab, file, text, error, player,
                 norm, caught>>

\* faulty variant: a request that got no response is sent again
SettleFailure_Retry(i, e) ==
  /\ norm.stage = "idle"
  /\ i \in LiveRequests
  /\ e \in AxiosErrors
  /\ IF e.request /\ ~e.response
     THEN /\ inflight' = Append(Remove(inflight, i),
                                [inflight[i] EXCEPT !.attempt = @ + 1])
          /\ UNCHANGED <<error, loading>>
     ELSE /\ inflight' = Remove(inflight, i)
          /\ error' = CatchMessage(inflight[i].comp, e)
          /\ loading' = FALSE
  /\ UNCHANGED <<lookup, preview, view, activeTab, appResult, file, text,
                 result,
                 parsedResult,
                 received, resultFile, player,
                 norm, caught>>

\* faulty variant: loading is reset in the try block only, not in a finally
SettleFailure_NoFinally(i, e) ==
  /\ norm.stage = "idle"
  /\ i \in LiveRequests
  /\ e \in AxiosErrors
  /\ inflight' = Remove(inflight, i)
  /\ error' = CatchMessage(inflight[i].comp, e)
  /\ UNCHANGED <<lookup, preview, view, activeTab, appResult, file, text,
                 loading,
                 result,
                 parsedResult, received, resultFile, player,
                 norm, caught>>

\* a rejected request of the mounted component: catch, then finally
SettleFailure(i, e) ==
  /\ norm.stage = "idle"
  /\ i \in LiveRequests
  /\ e \in AxiosErrors
  /\ inflight' = Remove(inflight, i)
  /\ error' = CatchMessage(inflight[i].comp, e)
  /\ loading' = FALSE
  /\ UNCHANGED <<lookup, preview, view, activeTab, appResult, file, text,
                 result,
                 parsedResult,
                 received, resultFile, player,
                 norm, caught>>

\* a request of a FileUpload that has unmounted settles: on a 2xx response
\* onResult(res.data) sets App's result; setError and setLoading do nothing
SettleAbandoned(i, ok, data) ==
  /\ norm.stage = "idle"
  /\ i \in 1..Len(inflight)
  /\ ~inflight[i].live
  /\ IF ok
     THEN /\ data \in DocPayloads
          /\ appResult' = data
          /\ inflight' = Answered(i)
     ELSE /\ data = JNull
          /\ inflight' = Remove(inflight, i)
          /\ UNCHANGED appResult
  /\ UNCHANGED <<lookup, preview, view, activeTab, file, text, loading,
                 error, result,
                 parsedResult, received, resultFile, player,
                 norm, caught>>

(* ------------------------------------------------------------------ *)
(* The normalizer on its own                                           *)
(* ------------------------------------------------------------------ *)

\* lines 84-95 of the whisper component applied to an insights object
NormalizeInsights(ins) ==
  WhisperTry(WhisperPayloadOf(ins)).processed

NormInit ==
  /\ view = "audio"
  /\ activeTab = "whisper"
  /\ appResult = JNull
  /\ player = NoPlayer
  /\ preview = NoPreview
  /\ lookup = LookupIdle
  /\ file = NoFile
  /\ text = <<>>
  /\ loading = FALSE
  /\ error = <<>>
  /\ result = JNull
  /\ parsedResult = NoParsed
  /\ received = JNull
  /\ resultFile = NoFile
  /\ inflight = <<>>
  /\ caught = CaughtIdle
  /\ \E i \in WideInsightPayloads :
       norm = [stage |-> "input", input |-> i, once |-> JNull, twice |-> JNull]

NormalizeOnce ==
  /\ norm.stage = "input"
  /\ norm' = [norm EXCEPT !.stage = "once",
                          !.once = Get(NormalizeInsights(norm.input), K("insights"))]
  /\ UNCHANGED <<lookup, view, activeTab, appResult, compVars, inflight,
                 caught>>

NormalizeAgain ==
  /\ norm.stage = "once"
  /\ norm' = [norm EXCEPT !.stage = "twice",
                          !.twice = Get(NormalizeInsights(norm.once), K("insights"))]
  /\ UNCHANGED <<lookup, view, activeTab, appResult, compVars, inflight,
                 caught>>

NormNext == NormalizeOnce \/ NormalizeAgain
NormSpec == NormInit /\ [][NormNext]_vars

(* ------------------------------------------------------------------ *)
(* The catch blocks on their own                                       *)
(* ------------------------------------------------------------------ *)

\* reading a member of null or undefined throws a TypeError
MemberReadThrows(v) == v[1] \in {"null", "undefined"}

\* the handleSubmit definitions of the repository: those of the five mounted
\* components and that of the older JavaScript FileUpload
Handlers == Comps \cup {"legacy"}

\* the catch block of the JavaScript FileUpload, which reads
\* err.response.data.detail without ?.
LegacyCatch(e) ==
  IF e.response
  THEN IF MemberReadThrows(e.data)
       THEN [threw |-> TRUE, message |-> <<>>]
       ELSE [threw |-> FALSE,
             message |-> ServerErrorPrefix \o JsString(DetailOrStatus(e))]
  ELSE IF e.request THEN [threw |-> FALSE, message |-> NetworkErrorMsg]
  ELSE [threw |-> FALSE, message |-> Word("Upload failed: ") \o e.message]

\* what the catch block of handler h does with the rejection e
CatchOutcome(h, e) ==
  IF h = "legacy" THEN LegacyCatch(e)
  ELSE [threw |-> FALSE, message |-> CatchMessage(h, e)]

\* responses with a non-2xx status: a body with a detail, a body without, an
\* empty body, the JSON body null; the status text is empty under HTTP/2
WideServerErrors ==
  { [response |-> TRUE, request |-> TRUE, data |-> d, statusText |-> st,
     message |-> Word("Request failed with status code 500")] :
      d \in { JObj(<< <<K("detail"), JStr(Word("Invalid file"))>> >>),
              JObj(<<>>), JStr(<<>>), JNull },
      st \in { Word("Internal Server Error"), Word("Bad Request"), <<>> } }

WideAxiosErrors == WideServerErrors \cup NoResponseErrors \cup SetupErrors

ViewOfHandler(h) ==
  IF h \in {"doc", "legacy"} THEN "image" ELSE IF h = "text" THEN "text" ELSE "audio"
TabOfHandler(h) == IF h \in Tabs THEN h ELSE "whisper"

\* a handler suspended at its await (loading set, error cleared) whose
\* request is about to reject with caught.err
CatchInit ==
  /\ \E h \in Handlers : \E e \in WideAxiosErrors :
       /\ caught = [stage |-> "pending", handler |-> h, err |-> e, threw |-> FALSE]
       /\ view = ViewOfHandler(h)
       /\ activeTab = TabOfHandler(h)
       /\ file = IF h = "text" THEN NoFile
                 ELSE CHOOSE f \in Files :
                        f.name = IF h \in Tabs THEN "call.wav" ELSE "slip.png"
       /\ text = IF h = "text" THEN Word("hello") ELSE <<>>
  /\ appResult = JNull
  /\ player = NoPlayer
  /\ preview = NoPreview
  /\ lookup = LookupIdle
  /\ loading = TRUE
  /\ error = <<>>
  /\ result = JNull
  /\ parsedResult = NoParsed
  /\ received = JNull
  /\ resultFile = NoFile
  /\ inflight = <<>>
  /\ norm = NormIdle

\* catch, then finally; when the catch block itself throws, setError is
\* never reached and the promise of handleSubmit rejects
CatchRun ==
  /\ caught.stage = "pending"
  /\ LET o == CatchOutcome(caught.handler, caught.err) IN
       /\ error' = IF o.threw THEN error ELSE o.message
       /\ caught' = [caught EXCEPT !.stage = "done", !.threw = o.threw]
  /\ loading' = FALSE
  /\ UNCHANGED <<lookup, preview, view, activeTab, appResult, file, text,
                 result,
                 parsedResult,
                 received, resultFile, inflight, player,
                 norm>>

CatchNext == CatchRun
CatchSpec == CatchInit /\ [][CatchNext]_vars

(* ------------------------------------------------------------------ *)
(* The application                                                     *)
(* ------------------------------------------------------------------ *)

Next ==
  \/ \E v \in Views : SetView(v)
  \/ \E t \in Tabs : SetActiveTab(t)
  \/ \E f \in Files : AudioHandleFileChange(f)
  \/ \E f \in Files : DiarizationHandleFileChange(f)
  \/ \E f \in Files : DocHandleFileChange(f)
  \/ \E f \in Files : DocHandleDrop(f)
  \/ \E t \in Texts : HandleTextChange(t)
  \/ UploadHandleSubmit
  \/ TextHandleSubmit
  \/ \E i \in 1..Len(inflight) :
       \E d \in Payloads(inflight[i].comp) : SettleSuccess(i, d)
  \/ \E i \in 1..Len(inflight) : \E e \in AxiosErrors : SettleFailure(i, e)
  \/ \E i \in 1..Len(inflight) : \E ok \in BOOLEAN :
       \E d \in DocPayloads \cup {JNull} : SettleAbandoned(i, ok, d)

Spec == Init /\ [][Next]_vars

\* the timeout every axios.post is given expires: a request still in flight
\* is rejected with no response
TimeoutError ==
  CHOOSE e \in NoResponseErrors : e.message = Word("timeout exceeded")
TimeoutExpires ==
  \E i \in 1..Len(inflight) :
    \/ SettleFailure(i, TimeoutError)
    \/ SettleAbandoned(i, FALSE, JNull)

LiveSpec == Spec /\ WF_vars(TimeoutExpires)

\* the forms also receive submit events that no click on the button fired
\* (form.requestSubmit(), a dispatched event): handleSubmit then runs
\* whatever the state of the button
FormNext ==
  \/ Next
  \/ UploadSubmitEvent
  \/ TextSubmitEvent

FormSpec == Init /\ [][FormNext]_vars

(* ------------------------------------------------------------------ *)
(* Colour lookups                                                      *)
(* ------------------------------------------------------------------ *)

\* a string is the sequence of its characters
UpperCase ==
  <<"A", "B", "C", "D", "E", "F", "G", "H", "I", "J", "K", "L", "M",
    "N", "O", "P", "Q", "R", "S", "T", "U", "V", "W", "X", "Y", "Z">>
LowerCase ==
  <<"a", "b", "c", "d", "e", "f", "g", "h", "i", "j", "k", "l", "m",
    "n", "o", "p", "q", "r", "s", "t", "u", "v", "w", "x", "y", "z">>
DigitChars == <<"0", "1", "2", "3", "4", "5", "6", "7", "8", "9">>

\* String.prototype.toLowerCase
LowerOf(c) ==
  IF \E i \in 1..26 : UpperCase[i] = c
  THEN LowerCase[CHOOSE i \in 1..26 : UpperCase[i] = c]
  ELSE c
ToLowerCase(str) == [i \in 1..Len(str) |-> LowerOf(str[i])]
ToUpperCase(str) ==
  [i \in 1..Len(str) |->
     IF \E k \in 1..26 : LowerCase[k] = str[i]
     THEN UpperCase[CHOOSE k \in 1..26 : LowerCase[k] = str[i]]
     ELSE str[i]]
Capitalised(str) ==
  IF str = <<>> THEN str ELSE <<ToUpperCase(str)[1]>> \o Tail(str)

\* a colour is a string value; a missing array element is undefined
Colour(c) == <<"string", c>>

\* TextInsights.getSentimentColor
getSentimentColor(sentiment) ==
  LET l == ToLowerCase(sentiment) IN
  CASE l = <<"p", "o", "s", "i", "t", "i", "v", "e">> -> Colour("#28a745")
    [] l = <<"n", "e", "g", "a", "t", "i", "v", "e">> -> Colour("#dc3545")
    [] l = <<"n", "e", "u", "t", "r", "a", "l">> -> Colour("#6c757d")
    [] OTHER -> Colour("#007bff")

\* TextInsights.getPriorityColor
getPriorityColor(priority) ==
  LET l == ToLowerCase(priority) IN
  CASE l = <<"u", "r", "g", "e", "n", "t">> \/ l = <<"h", "i", "g", "h">> -> Colour("#dc3545")
    [] l = <<"m", "e", "d", "i", "u", "m">> -> Colour("#fd7e14")
    [] l = <<"l", "o", "w">> -> Colour("#28a745")
    [] OTHER -> Colour("#6c757d")

\* AudioDiarization.getSpeakerColor: const colors = [...]
colors ==
  <<"#FF6B6B", "#4ECDC4", "#45B7D1", "#96CEB4", "#FFEAA7", "#DDA0DD",
    "#98D8C8", "#F7DC6F">>

\* speaker.replace(/\D/g, "")
IsDigit(c) == \E i \in 1..10 : DigitChars[i] = c
DigitsOf(str) == SelectSeq(str, IsDigit)
DigitVal(c) == (CHOOSE i \in 1..10 : DigitChars[i] = c) - 1

RECURSIVE StripZeros(_)
StripZeros(ds) ==
  IF ds # <<>> /\ Head(ds) = "0" THEN StripZeros(Tail(ds)) ELSE ds

\* a < b for two decimal numerals without leading zeros
LessDigits(a, b) ==
  \/ Len(a) < Len(b)
  \/ /\ Len(a) = Len(b)
     /\ \E k \in 1..Len(a) :
          /\ DigitVal(a[k]) < DigitVal(b[k])
          /\ \A j \in 1..(k - 1) : a[j] = b[j]

\* Numbers are IEEE doubles.  2^53, 2^54 and 2^55: up to 2^53 every integer
\* is a double, then every second one, every fourth one, and from 2^55 on
\* only multiples of 8
Two53 == <<"9", "0", "0", "7", "1", "9", "9", "2", "5", "4", "7", "4", "0", "9", "9", "2">>
Two54 == <<"1", "8", "0", "1", "4", "3", "9", "8", "5", "0", "9", "4", "8", "1", "9", "8", "4">>
Two55 == <<"3", "6", "0", "2", "8", "7", "9", "7", "0", "1", "8", "9", "6", "3", "9", "6", "8">>
\* 2^1024 - 2^970: a numeral of this value or more is read as Infinity
InfinityFrom ==
  <<
    "1", "7", "9", "7", "6", "9", "3", "1", "3", "4", "8", "6", "2", "3",
    "1", "5", "8", "0", "7", "9", "3", "7", "2", "8", "9", "7", "1", "4",
    "0", "5", "3", "0", "3", "4", "1", "5", "0", "7", "9", "9", "3", "4",
    "1", "3", "2", "7", "1", "0", "0", "3", "7", "8", "2", "6", "9", "3",
    "6", "1", "7", "3", "7", "7", "8", "9", "8", "0", "4", "4", "4", "9",
    "6", "8", "2", "9", "2", "7", "6", "4", "7", "5", "0", "9", "4", "6",
    "6", "4", "9", "0", "1", "7", "9", "7", "7", "5", "8", "7", "2", "0",
    "7", "0", "9", "6", "3", "3", "0", "2", "8", "6", "4", "1", "6", "6",
    "9", "2", "8", "8", "7", "9", "1", "0", "9", "4", "6", "5", "5", "5",
    "5", "4", "7", "8", "5", "1", "9", "4", "0", "4", "0", "2", "6", "3",
    "0", "6", "5", "7", "4", "8", "8", "6", "7", "1", "5", "0", "5", "8",
    "2", "0", "6", "8", "1", "9", "0", "8", "9", "0", "2", "0", "0", "0",
    "7", "0", "8", "3", "8", "3", "6", "7", "6", "2", "7", "3", "8", "5",
    "4", "8", "4", "5", "8", "1", "7", "7", "1", "1", "5", "3", "1", "7",
    "6", "4", "4", "7", "5", "7", "3", "0", "2", "7", "0", "0", "6", "9",
    "8", "5", "5", "5", "7", "1", "3", "6", "6", "9", "5", "9", "6", "2",
    "2", "8", "4", "2", "9", "1", "4", "8", "1", "9", "8", "6", "0", "8",
    "3", "4", "9", "3", "6", "4", "7", "5", "2", "9", "2", "7", "1", "9",
    "0", "7", "4", "1", "6", "8", "4", "4", "4", "3", "6", "5", "5", "1",
    "0", "7", "0", "4", "3", "4", "2", "7", "1", "1", "5", "5", "9", "6",
    "9", "9", "5", "0", "8", "0", "9", "3", "0", "4", "2", "8", "8", "0",
    "1", "7", "7", "9", "0", "4", "1", "7", "4", "4", "9", "7", "7", "9", "2" >>

NaN == <<"NaN">>
Infinity == <<"Infinity">>
Num(ds) == <<"number", ds>>

\* parseInt of a string of decimal digits: the number it is rounded to is
\* kept as the numeral that was read
parseInt(ds) ==
  IF ds = <<>> THEN NaN
  ELSE IF ~LessDigits(StripZeros(ds), InfinityFrom) THEN Infinity
  ELSE Num(StripZeros(ds))

\* v || 0
OrZero(v) == IF v[1] = "NaN" \/ v = Num(<<>>) THEN Num(<<>>) ELSE v

\* the numeral modulo 8, by its last three digits
Residue8(ds) ==
  LET n == Len(ds)
      d(k) == IF k >= 1 THEN DigitVal(ds[k]) ELSE 0
  IN (100 * d(n - 2) + 10 * d(n - 1) + d(n)) % 8

\* v % 8 for the double v, round-to-nearest-even included; Infinity % 8 is NaN
Rem8(v) ==
  IF v[1] # "number" THEN NaN
  ELSE LET ds == v[2]
           r == Residue8(ds)
           m == IF ~LessDigits(Two53, ds) THEN r
                ELSE IF LessDigits(ds, Two54)
                THEN CASE r \in {0, 2, 4, 6} -> r
                       [] r \in {1, 7} -> 0
                       [] OTHER -> 4
                ELSE IF LessDigits(ds, Two55)
                THEN CASE r \in {0, 1, 2, 6, 7} -> 0
                       [] OTHER -> 4
                ELSE 0
       IN Num(IF m = 0 THEN <<>> ELSE <<DigitChars[m + 1]>>)

\* colors[v]: undefined when v is not an index of the array
ColorAt(v) ==
  IF v[1] # "number" THEN JUndef
  ELSE IF v[2] = <<>> THEN Colour(colors[1])
  ELSE IF Len(v[2]) = 1 /\ DigitVal(v[2][1]) < Len(colors)
  THEN Colour(colors[DigitVal(v[2][1]) + 1])
  ELSE JUndef

\* AudioDiarization.getSpeakerColor
getSpeakerColor(speaker) ==
  LET index == OrZero(parseInt(DigitsOf(speaker)))
  IN ColorAt(Rem8(index))

\* the categories the lookups are given, in three ways of writing them
Variants(w) == {w, Capitalised(w), ToUpperCase(w)}
SentimentInputs ==
  UNION { Variants(w) : w \in {<<"p", "o", "s", "i", "t", "i", "v", "e">>, <<"n", "e", "g", "a", "t", "i", "v", "e">>, <<"n", "e", "u", "t", "r", "a", "l">>, <<"m", "i", "x", "e", "d">>, <<>>} }
PriorityInputs ==
  UNION { Variants(w) :
            w \in {<<"u", "r", "g", "e", "n", "t">>, <<"h", "i", "g", "h">>, <<"m", "e", "d", "i", "u", "m">>, <<"l", "o", "w">>, <<"c", "r", "i", "t", "i", "c", "a", "l">>, <<>>} }

\* the speaker labels: numbered speakers, labels without a digit, and numbers
\* at the limits of what a double holds
MaxSpeaker == 17
NumeralOf(n) ==
  IF n < 10 THEN <<DigitChars[n + 1]>>
  ELSE <<DigitChars[(n \div 10) + 1], DigitChars[(n % 10) + 1]>>
Nines == [i \in 1..Len(InfinityFrom) |-> "9"]
SpeakerLabels ==
  { <<"S", "p", "e", "a", "k", "e", "r", " ">> \o NumeralOf(n) : n \in 0..MaxSpeaker }
  \cup { <<"S", "P", "E", "A", "K", "E", "R", "_">> \o <<"0">> \o NumeralOf(n) : n \in 0..9 }
  \cup { <<>>, <<"A", "g", "e", "n", "t">>, <<"c", "u", "s", "t", "o", "m", "e", "r">>, <<"S", "p", "e", "a", "k", "e", "r", " ", "A">> }
  \cup { <<"S", "p", "e", "a", "k", "e", "r", " ">> \o n :
           n \in { Two53 \o <<"1">>, Two54, Two55, Nines, Tail(Nines),
                   InfinityFrom, <<"0">> \o InfinityFrom } }

LookupInputs(fn) ==
  CASE fn = "getSentimentColor" -> SentimentInputs
    [] fn = "getPriorityColor" -> PriorityInputs
    [] fn = "getSpeakerColor" -> SpeakerLabels

ColourInit ==
  /\ view = "audio"
  /\ activeTab = "diarization"
  /\ appResult = JNull
  /\ player = NoPlayer
  /\ preview = NoPreview
  /\ file = NoFile
  /\ text = <<>>
  /\ loading = FALSE
  /\ error = <<>>
  /\ result = JNull
  /\ parsedResult = NoParsed
  /\ received = JNull
  /\ resultFile = NoFile
  /\ inflight = <<>>
  /\ norm = NormIdle
  /\ caught = CaughtIdle
  /\ \E fn \in {"getSentimentColor", "getPriorityColor", "getSpeakerColor"} :
       \E str \in LookupInputs(fn) :
         lookup = [stage |-> "called", fn |-> fn, input |-> str]

\* the call returns
ColourReturn ==
  /\ lookup.stage = "called"
  /\ lookup' =
       [stage |-> "returned", fn |-> lookup.fn, input |-> lookup.input,
        value |-> CASE lookup.fn = "getSentimentColor" ->
                         getSentimentColor(lookup.input)
                    [] lookup.fn = "getPriorityColor" ->
                         getPriorityColor(lookup.input)
                    [] lookup.fn = "getSpeakerColor" ->
                         getSpeakerColor(lookup.input)]
  /\ UNCHANGED <<view, activeTab, appResult, compVars, inflight, norm, caught>>

ColourNext == ColourReturn
ColourSpec == ColourInit /\ [][ColourNext]_vars

(* ------------------------------------------------------------------ *)
(* The image preview of FileUpload                                     *)
(* ------------------------------------------------------------------ *)

Min(a, b) == IF a < b THEN a ELSE b
Max(a, b) == IF a > b THEN a ELSE b

\* the zoom buttons are rendered with the preview: {imageUrl && (...)}
ZoomStepTo(z) ==
  /\ norm.stage = "idle"
  /\ Mounted = "doc"
  /\ preview.imageUrl # <<>>
  /\ preview' = [preview EXCEPT !.imageZoom = z]
  /\ UNCHANGED <<lookup, view, activeTab, appResult, file, text, loading, error,
                 result, parsedResult, received, resultFile, player, inflight,
                 norm, caught>>

\* faulty variant: zooming in has no upper limit
HandleZoomIn_NoLimit == ZoomStepTo(preview.imageZoom + ZoomStep)

\* handleZoomIn: setImageZoom((prev) => Math.min(prev + 0.25, 3))
HandleZoomIn == ZoomStepTo(Min(preview.imageZoom + ZoomStep, MaxZoom))

\* handleZoomOut: setImageZoom((prev) => Math.max(prev - 0.25, 0.25))
HandleZoomOut == ZoomStepTo(Max(preview.imageZoom - ZoomStep, MinZoom))

\* resetZoom: setImageZoom(1)
ResetZoom == ZoomStepTo(DefaultZoom)

\* FileUpload with its preview in use
ZoomNext ==
  \/ \E f \in Files : DocHandleFileChange(f)
  \/ \E f \in Files : DocHandleDrop(f)
  \/ UploadHandleSubmit
  \/ \E i \in 1..Len(inflight) :
       \E d \in Payloads(inflight[i].comp) : SettleSuccess(i, d)
  \/ \E i \in 1..Len(inflight) : \E e \in AxiosErrors : SettleFailure(i, e)
  \/ HandleZoomIn
  \/ HandleZoomOut
  \/ ResetZoom

ZoomSpec == Init /\ [][ZoomNext]_vars

(* ------------------------------------------------------------------ *)
(* The audio preview of the three audio components                     *)
(* ------------------------------------------------------------------ *)

\* the positions the <audio> element reports, in seconds
MaxTime == 1

\* the <audio> element exists once audioUrl is set: {audioUrl && (...)}
HasAudioElement == Mounted \in AudioComps /\ player.audioUrl # <<>>

PlayerStep(p) ==
  /\ norm.stage = "idle"
  /\ HasAudioElement
  /\ player' = p
  /\ UNCHANGED <<lookup, preview, view, activeTab, appResult, file, text,
                 loading,
                 error,
                 result, parsedResult, received, resultFile, inflight, norm,
                 caught>>

\* togglePlayPause
TogglePlayPause == PlayerStep([player EXCEPT !.isPlaying = ~player.isPlaying])

\* handleTimeUpdate: the position the playing element has reached
HandleTimeUpdate(t) ==
  /\ player.isPlaying
  /\ PlayerStep([player EXCEPT !.currentTime = t])

\* handleSeek
HandleSeek(t) == PlayerStep([player EXCEPT !.currentTime = t])

\* onEnded={() => setIsPlaying(false)}
HandleEnded ==
  /\ player.isPlaying
  /\ PlayerStep([player EXCEPT !.isPlaying = FALSE])

\* the audio components with their preview in use
PlayerNext ==
  \/ \E v \in Views : SetView(v)
  \/ \E t \in Tabs : SetActiveTab(t)
  \/ \E f \in Files : AudioHandleFileChange(f)
  \/ \E f \in Files : DiarizationHandleFileChange(f)
  \/ UploadHandleSubmit
  \/ \E i \in 1..Len(inflight) :
       \E d \in Payloads(inflight[i].comp) : SettleSuccess(i, d)
  \/ \E i \in 1..Len(inflight) : \E e \in AxiosErrors : SettleFailure(i, e)
  \/ TogglePlayPause
  \/ \E t \in 0..MaxTime : HandleTimeUpdate(t)
  \/ \E t \in 0..MaxTime : HandleSeek(t)
  \/ HandleEnded

PlayerSpec == Init /\ [][PlayerNext]_vars

(* ------------------------------------------------------------------ *)
(* Display renderer: ResultDisplay                                     *)
(* ------------------------------------------------------------------ *)

\* what ResultDisplay renders is a sequence of <<part, value>>

\* faulty variant: the error panel is put above the document, not instead of it
ResultDisplay_ErrorAbove(data) ==
  IF ~Truthy(data) THEN <<>>
  ELSE (IF Truthy(Get(data, K("error")))
        THEN << <<"error", Get(data, K("error"))>> >> ELSE <<>>)
       \o << <<"document_type",
               IF Truthy(Get(data, K("document_type")))
               THEN Get(data, K("document_type")) ELSE JStr(Word("Unknown"))>> >>
       \o (IF Truthy(Get(data, K("raw_text")))
           THEN << <<"raw_text", Get(data, K("raw_text"))>> >> ELSE <<>>)
       \o (IF Truthy(Get(data, K("extracted_json")))
           THEN << <<"extracted_json", Get(data, K("extracted_json"))>> >>
           ELSE <<>>)

\* ResultDisplay({ data })
ResultDisplay(data) ==
  IF ~Truthy(data) THEN <<>>
  ELSE IF Truthy(Get(data, K("error")))
  THEN << <<"error", Get(data, K("error"))>> >>
  ELSE << <<"document_type",
            IF Truthy(Get(data, K("document_type")))
            THEN Get(data, K("document_type")) ELSE JStr(Word("Unknown"))>> >>
       \o (IF Truthy(Get(data, K("raw_text")))
           THEN << <<"raw_text", Get(data, K("raw_text"))>> >> ELSE <<>>)
       \o (IF Truthy(Get(data, K("extracted_json")))
           THEN << <<"extracted_json", Get(data, K("extracted_json"))>> >>
           ELSE <<>>)

(* ------------------------------------------------------------------ *)
(* Display renderer: the cards of the three fields                     *)
(* ------------------------------------------------------------------ *)

Omitted == <<"omitted">>
ShownText(s) == <<"text", s>>
ShownStructured(a, b) == <<"structured", a, b>>

\* the member of a parsed field that its card tests and shows first
HeadKey(f) ==
  CASE f = "case_priority_level" -> K("priority_category")
    [] f = "sentiment" -> K("sentiment_category")
    [] OTHER -> K("dialogue_history")
\* the member shown under it (the dialogue card lists the turns and has none)
SubOf(f, v) ==
  CASE f = "case_priority_level" -> Get(v, K("priority_reason"))
    [] f = "sentiment" -> Get(v, K("sentiment_reasoning"))
    [] OTHER -> JUndef

\* the whisper component: the Priority Level and Sentiment cards fall back to
\* the string (or to JSON.stringify); Dialogue History has no fallback
WhisperCard(f, res) ==
  LET v == Get(Get(res, K("insights")), K(f)) IN
  IF ~Truthy(res) \/ ~Truthy(Get(res, K("insights"))) \/ ~Truthy(v) THEN Omitted
  ELSE IF IsObjectType(v) /\ Truthy(Get(v, HeadKey(f)))
  THEN ShownStructured(Get(v, HeadKey(f)), SubOf(f, v))
  ELSE IF f = "dialogue_history" THEN Omitted
  ELSE ShownText(IF IsString(v) THEN v[2] ELSE Stringify(v))

ParsedKey(f) ==
  CASE f = "case_priority_level" -> "priority"
    [] f = "sentiment" -> "sentiment"
    [] OTHER -> "dialogue"

\* TextInsights: a card is drawn from parsedResult alone
TextCard(f, res, parsed) ==
  LET v == parsed[ParsedKey(f)] IN
  IF ~Truthy(res) \/ ~Truthy(v) THEN Omitted
  ELSE IF f = "dialogue_history" /\ ~Truthy(Get(v, HeadKey(f))) THEN Omitted
  ELSE ShownStructured(Get(v, HeadKey(f)), SubOf(f, v))

\* the card of field f in the mounted component
Card(f) ==
  IF Mounted = "whisper" THEN WhisperCard(f, result)
  ELSE IF Mounted = "text" THEN TextCard(f, result, parsedResult)
  ELSE Omitted

(* ------------------------------------------------------------------ *)
(* Properties                                                          *)
(* ------------------------------------------------------------------ *)

\* field f of the insight payload as the service sent it
RawField(f) ==
  IF Mounted = "whisper" THEN Get(Get(received, K("insights")), K(f))
  ELSE Get(received, K(f))

\* field f after normalization: the whisper component normalizes the insights
\* of the payload it stores, TextInsights normalizes into parsedResult
NormalizedField(f) ==
  IF Mounted = "whisper" THEN Get(Get(result, K("insights")), K(f))
  ELSE parsedResult[ParsedKey(f)]

\* a payload of an insights endpoint is held
HoldsInsights == Mounted \in {"whisper", "text"} /\ result # JNull

ValidJsonString(v) == IsString(v) /\ JSONparse(v[2]).ok
InvalidJsonString(v) == IsString(v) /\ ~JSONparse(v[2]).ok

\* some field arrived as a string that is valid JSON
SomeValidJsonField == \E f \in Fields : ValidJsonString(RawField(f))

\* C1 as stated: in the whisper path, after a 2xx response whose insights hold
\* a field that is a valid JSON string, result still holds that string
C1_StoredUnparsed ==
  (Mounted = "whisper" /\ result # JNull) =>
    \A f \in Fields :
      ValidJsonString(RawField(f)) => NormalizedField(f) = RawField(f)

\* C1 amended: in the whisper path the payload stored in result and rendered
\* is res.data itself, whose insights object is the one processedResult
\* shares and the handler wrote to, so every field that arrived as a valid
\* JSON string holds, in result, the structure JSON.parse gives for it
C1_StoredParsed ==
  (Mounted = "whisper" /\ result # JNull) =>
    /\ \A f \in Fields :
         ValidJsonString(RawField(f)) =>
           /\ NormalizedField(f) = JSONparse(RawField(f)[2]).val
           /\ NormalizedField(f) # RawField(f)
    /\ Get(result, K("transcription")) = Get(received, K("transcription"))
    /\ Get(result, K("translation")) = Get(received, K("translation"))

C1_Witness ==
  /\ Mounted = "whisper"
  /\ result # JNull
  /\ ValidJsonString(RawField("sentiment"))
  /\ Card("sentiment") = ShownStructured(JStr(Word("Positive")), JStr(Word("x")))

\* a string whose JSON parse is a string that is valid JSON again
DoublyEncoded(v) ==
  /\ ValidJsonString(v)
  /\ ValidJsonString(JSONparse(v[2]).val)

\* C2 as stated: normalizing twice gives what normalizing once gives, for
\* every payload
C2_Idempotent == norm.stage = "twice" => norm.twice = norm.once

\* C2 amended: for every field value that is not a doubly encoded string (a
\* string whose JSON parse is itself a string that is valid JSON), normalizing
\* twice gives what normalizing once gives; a doubly encoded string loses one
\* level of encoding per pass
C2_IdempotentUnlessDoublyEncoded ==
  norm.stage = "twice" =>
    \A f \in Fields :
      LET v == Get(norm.input, K(f))
          once == Get(norm.once, K(f))
          twice == Get(norm.twice, K(f))
      IN IF DoublyEncoded(v)
         THEN /\ once = JSONparse(v[2]).val
              /\ twice = JSONparse(once[2]).val
         ELSE twice = once

C2_Witness ==
  /\ norm.stage = "twice"
  /\ norm.twice = norm.once
  /\ norm.once # norm.input
  /\ InvalidJsonString(Get(norm.input, K("case_priority_level")))
  /\ ValidJsonString(Get(norm.input, K("sentiment")))
  /\ ~DoublyEncoded(Get(norm.input, K("sentiment")))

\* the sentiment string of the scenario of section 8
ScenarioSentiment ==
  << LBrace, TQ(Word("sentiment_category")), Colon, TQ(Word("Positive")), Comma,
     TQ(Word("sentiment_reasoning")), Colon, TQ(Word("x")), Comma,
     TQ(Word("sentiment_distribution")), Colon, LBrack, RBrack, RBrace >>

\* C5: a field holding a string s that is valid JSON is replaced by
\* JSON.parse(s); the scenario's sentiment string becomes a structure whose
\* sentiment_category is "Positive"
C5_ValidJsonParsed ==
  norm.stage \in {"once", "twice"} =>
    \A f \in Fields :
      LET v == Get(norm.input, K(f))
          once == Get(norm.once, K(f))
      IN /\ ValidJsonString(v) => once = JSONparse(v[2]).val
         /\ v = JStr(ScenarioSentiment) =>
              /\ once[1] = "obj"
              /\ Get(once, K("sentiment_category")) = JStr(Word("Positive"))
              /\ Get(once, K("sentiment_reasoning")) = JStr(Word("x"))
              /\ Get(once, K("sentiment_distribution")) = JArr(<<>>)

C5_Witness ==
  /\ norm.stage = "once"
  /\ Get(norm.input, K("sentiment")) = JStr(ScenarioSentiment)
  /\ Get(Get(norm.once, K("sentiment")), K("sentiment_category"))
       = JStr(Word("Positive"))

\* what a path makes of a field value v when the other two fields parse: the
\* whisper component parses a string and keeps what does not parse,
\* TextInsights parses whatever arrives and has null for what does not parse
OutcomeAlone(c, v) ==
  IF c = "whisper" THEN parseJsonSafely(v)
  ELSE IF JSONparseAny(v).ok THEN JSONparseAny(v).val ELSE JNull

\* C3 as stated: in the whisper path and in the text path the normalized
\* outcome of each of the three fields is decided by that field's own value
\* alone, whatever the other two fields hold
C3_FieldIndependence ==
  HoldsInsights =>
    \A f \in Fields : NormalizedField(f) = OutcomeAlone(Mounted, RawField(f))

\* the step is the success continuation of an insights request
InsightsSuccessStep ==
  \E i \in 1..Len(inflight) :
    /\ inflight[i].comp \in {"whisper", "text"}
    /\ \E d \in Payloads(inflight[i].comp) : SettleSuccess(i, d)

\* C4 as stated: a 2xx response with a field that is a string but no valid
\* JSON completes as a success (loading ends, the error state is not set) and
\* normalization leaves that field equal to the original string
C4_InvalidStringKept ==
  [][InsightsSuccessStep =>
       /\ error' = error
       /\ ~loading'
       /\ \A f \in Fields :
            InvalidJsonString(RawField(f)') =>
              NormalizedField(f)' = RawField(f)']_vars

\* C6 as stated: in the whisper path and in the text path a field value that
\* is no string is left exactly as it arrived
C6_NonStringUnchanged ==
  HoldsInsights =>
    \A f \in Fields :
      ~IsString(RawField(f)) => NormalizedField(f) = RawField(f)

\* C7 as stated: in the whisper path and in the text path a field holding a
\* string that does not parse never sets the error state, and its card shows
\* the original string
C7_UnparsedStringShown ==
  [][InsightsSuccessStep =>
       /\ error' = error
       /\ \A f \in Fields :
            InvalidJsonString(RawField(f)') =>
              Card(f)' = ShownText(RawField(f)'[2])]_vars

\* the payload the mounted component shows: App's result under FileUpload,
\* the component's own result elsewhere
ShownResult == IF Mounted = "doc" THEN appResult ELSE result

\* C8 as stated: once handleSubmit has issued its POST, result holds no
\* payload of an earlier request while that request is outstanding
C8_DiscardedOnSubmit == LiveRequests # {} => ShownResult = JNull

SubmitDisabled ==
  IF Mounted = "text" THEN TextSubmitDisabled ELSE UploadSubmitDisabled

\* C9: the mounted component has at most one request outstanding, and while
\* it has one, loading is true and its submit button is disabled
C9_SingleRequestInFlight ==
  /\ Cardinality(LiveRequests) <= 1
  /\ LiveRequests # {} => loading /\ SubmitDisabled
  /\ \A i \in LiveRequests : inflight[i].comp = Mounted

\* a request is outstanding and the user has since picked another file
C9_Witness ==
  \E i \in LiveRequests :
    /\ loading
    /\ file # NoFile
    /\ file # inflight[i].file

StartsWith(s, prefix) ==
  Len(s) >= Len(prefix) /\ SubSeq(s, 1, Len(prefix)) = prefix

\* C10: when a request settles without a response (no connection, or the
\* timeout expired) the error set is exactly the network-error message, and
\* does not start with "Server error:"
C10_NoResponseIsNetworkError ==
  [][\A i \in 1..Len(inflight) : \A e \in NoResponseErrors :
       SettleFailure(i, e) =>
         /\ error' = NetworkErrorMsg
         /\ ~StartsWith(error', ServerErrorPrefix)]_vars

C10_Witness ==
  /\ error = NetworkErrorMsg
  /\ ~loading
  /\ Mounted = "diarization"
  /\ file # NoFile

\* the response body carries a detail
HasDetail(e) == e.data[1] = "obj" /\ IsString(Get(e.data, K("detail")))

\* C11 as stated: whenever a request fails with an HTTP response, in every
\* handleSubmit of the repository the catch block does not throw and the
\* error set is "Server error: " followed by the detail of the body when it
\* carries one and by the status text otherwise
C11_ServerErrorShown ==
  (caught.stage = "done" /\ caught.err.response) =>
    /\ ~caught.threw
    /\ error = ServerErrorPrefix \o
                 (IF HasDetail(caught.err)
                  THEN Get(caught.err.data, K("detail"))[2]
                  ELSE caught.err.statusText)

\* C12: a POST is issued only by a handleSubmit run by the user, one POST
\* per accepted submission, and a request that settles with an error leaves
\* the component with one request fewer: nothing is sent again
C12_NoAutomaticRetry ==
  [][/\ Len(inflight') > Len(inflight) =>
          /\ UploadHandleSubmit \/ TextHandleSubmit
          /\ Len(inflight') = Len(inflight) + 1
     /\ \A i \in 1..Len(inflight) : \A e \in AxiosErrors :
          SettleFailure(i, e) =>
            /\ Len(inflight') = Len(inflight) - 1
            /\ \A k \in 1..Len(inflight') : inflight'[k].attempt = 1]_vars

\* a Gemini upload has failed with a server error and nothing is in flight
C12_Witness ==
  /\ Mounted = "gemini"
  /\ file # NoFile
  /\ StartsWith(error, ServerErrorPrefix)
  /\ ~loading
  /\ inflight = <<>>

\* the step settles request i of the mounted component
SettlesRequest(i) ==
  /\ i \in LiveRequests
  /\ Len(inflight') = Len(inflight) - 1
  /\ \A k \in 1..Len(inflight') : ~inflight'[k].live
  /\ view' = view
  /\ activeTab' = activeTab

\* the input the component holds is the one request i was submitted with
HoldsSubmittedInput(i) ==
  IF inflight[i].comp = "text" THEN Trim(text) = inflight[i].text
  ELSE file = inflight[i].file

\* C13: a component that is loading eventually is not, and the step that
\* settles its request, whatever the outcome, sets loading to false and
\* leaves file and text as they are, so that with the submitted input still
\* in place the submit button is enabled again
C13_SettlesAndReenables ==
  /\ loading ~> ~loading
  /\ [][\A i \in 1..Len(inflight) :
          SettlesRequest(i) =>
            /\ ~loading'
            /\ file' = file
            /\ text' = text
            /\ HoldsSubmittedInput(i) => ~SubmitDisabled']_vars

\* a text analysis has timed out or found no server, and can be submitted again
C13_Witness ==
  /\ Mounted = "text"
  /\ error = NetworkErrorMsg
  /\ ~loading
  /\ inflight = <<>>
  /\ Trim(text) # <<>>
  /\ ~TextSubmitDisabled

\* a catch block of one of the five mounted components has run
CaughtInComponent == caught.stage = "done" /\ caught.handler \in Comps

\* C14 as stated: for the same failure the document, Gemini, whisper,
\* diarization and text components all set the same error message
C14_SameMessageEverywhere ==
  CaughtInComponent =>
    \A c \in Comps : CatchOutcome(c, caught.err).message = error

\* C14, amended: for a failure with a response or with a request the five
\* components set the same message; for a failure with neither, each sets
\* the error's message after its own prefix, "Analysis failed: " in
\* TextInsights and "Upload failed: " in the four upload components
C14_SameMessageButPrefix ==
  CaughtInComponent =>
    \A c \in Comps :
      LET own == CatchOutcome(c, caught.err).message
          prefix == IF c = "text" THEN Word("Analysis failed: ")
                    ELSE Word("Upload failed: ")
      IN IF caught.err.response \/ caught.err.request
         THEN own = error
         ELSE /\ own = prefix \o caught.err.message
              /\ (c = "text") = (caught.handler = "text") => own = error

\* TextInsights has caught a failure with neither response nor request
C14_Witness ==
  /\ CaughtInComponent
  /\ caught.handler = "text"
  /\ ~caught.err.response
  /\ ~caught.err.request
  /\ error = Word("Analysis failed: ") \o caught.err.message

EndsWith(s, suffix) ==
  Len(s) >= Len(suffix) /\ SubSeq(s, Len(s) - Len(suffix) + 1, Len(s)) = suffix

\* C15: when the failure carries neither a response nor a request, the error
\* set ends with the message of the exception and is neither the
\* network-error message nor a "Server error: " message
C15_ClientErrorShowsMessage ==
  (caught.stage = "done" /\ ~caught.err.response /\ ~caught.err.request) =>
    /\ ~caught.threw
    /\ EndsWith(error, caught.err.message)
    /\ error # NetworkErrorMsg
    /\ ~StartsWith(error, ServerErrorPrefix)

\* the Gemini upload could not send its request
C15_Witness ==
  /\ caught.stage = "done"
  /\ caught.handler = "gemini"
  /\ ~caught.err.response
  /\ ~caught.err.request
  /\ error = Word("Upload failed: ") \o Word("Invalid URL")

\* README, File Size Limits: "Images: 10MB maximum"
MaxImageSize == 10 * MB

\* C16 as stated: a document file larger than 10 MB never ends with a result
\* displayed for it, whatever the server replies: no 2xx continuation
\* (onResult(res.data)) ever runs for a request carrying such a file
C16_OversizedDocumentNoResult ==
  [][\A i \in 1..Len(inflight) : \A d \in DocPayloads :
       (SettleSuccess(i, d) \/ SettleAbandoned(i, TRUE, d)) =>
         inflight[i].file.size <= MaxImageSize]_vars

\* C17 as stated: every POST issued by an audio upload (whisper, Gemini,
\* diarization) carries a file of at most 100 MB
C17_AudioSizeBounded ==
  \A i \in 1..Len(inflight) :
    inflight[i].comp \in AudioComps => inflight[i].file.size <= 100 * 1024 * 1024

\* C18 as stated: the file FileUpload.handleSubmit sends has an image/* MIME
\* type or is a PDF
C18_OnlyImagesOrPdf ==
  \A i \in 1..Len(inflight) :
    inflight[i].comp = "doc" =>
      \/ inflight[i].file.type[1] = "image"
      \/ inflight[i].file.type = <<"application", "pdf">>

C20_ResultOfSelectedFile ==
  (Mounted \in AudioComps /\ result # JNull) => resultFile = file

\* C21 as stated: App's result is the response to the most recently
\* submitted document: no 2xx response to a document request sets it once a
\* later document submission has been answered
C21_LatestDocumentWins ==
  [][\A i \in 1..Len(inflight) : \A d \in DocPayloads :
       (SettleSuccess(i, d) \/ SettleAbandoned(i, TRUE, d)) =>
         ~inflight[i].superseded]_vars

\* C22 as stated: in every component, error is empty whenever a result that
\* is not null is shown
C22_ErrorOrResult == error # <<>> => ShownResult = JNull

\* C23: for a payload with a non-empty error field ResultDisplay renders the
\* error panel and nothing else, no document_type, raw_text or
\* extracted_json; for the payload null it renders nothing
C23_ErrorPanelOnly ==
  LET shown == ResultDisplay(appResult) IN
    /\ appResult = JNull => shown = <<>>
    /\ Truthy(Get(appResult, K("error"))) =>
         /\ shown = << <<"error", Get(appResult, K("error"))>> >>
         /\ \A k \in 1..Len(shown) :
              shown[k][1] \notin {"document_type", "raw_text", "extracted_json"}

\* App holds a payload with an error field next to its document fields
C23_Witness ==
  /\ view = "image"
  /\ Truthy(Get(appResult, K("error")))
  /\ Truthy(Get(appResult, K("document_type")))
  /\ Truthy(Get(appResult, K("raw_text")))

\* handleSubmit runs with nothing to submit
SubmitsNothing ==
  \/ UploadSubmitEvent /\ file = NoFile
  \/ TextSubmitEvent /\ Trim(text) = <<>>

\* the prompt of the mounted component
Prompt ==
  IF Mounted = "doc" THEN Word("Please select a file first.")
  ELSE IF Mounted = "text" THEN Word("Please enter some text to analyze.")
  ELSE Word("Please select an audio file first.")

\* C24: when handleSubmit runs with no file selected, or with an empty or
\* whitespace-only text, the error becomes the prompt, no POST is issued,
\* loading is false afterwards and result is unchanged
C24_RejectedLocally ==
  [][SubmitsNothing =>
       /\ error' = Prompt
       /\ inflight' = inflight
       /\ loading' = FALSE
       /\ result' = result /\ parsedResult' = parsedResult
       /\ appResult' = appResult]_vars

\* C24 as the code has it: loading is left as it was, which is true when the
\* text was cleared while a request is pending
C24_RejectedLocallyLoadingKept ==
  [][SubmitsNothing =>
       /\ error' = Prompt
       /\ inflight' = inflight
       /\ loading' = loading
       /\ result' = result /\ parsedResult' = parsedResult
       /\ appResult' = appResult]_vars

\* the prompt is shown although nothing is selected or typed, with no
\* request in flight; and it is shown in TextInsights while one is pending
C24_Witness ==
  /\ error = Prompt
  /\ \/ Mounted # "text" /\ file = NoFile /\ inflight = <<>> /\ ~loading
     \/ Mounted = "text" /\ Trim(text) = <<>> /\ text # <<>> /\ ~loading

\* handleFileChange of an audio component turns the file f down
RejectsSelection(f) ==
  \/ AudioHandleFileChange(f) /\ ~StartsWithAudio(f)
  \/ /\ DiarizationHandleFileChange(f)
     /\ (~StartsWithAudio(f) \/ f.size > MaxAudioSize)

\* C25: a rejected audio selection changes the error message only: file,
\* audioUrl, isPlaying, currentTime and result are left as they were, and so
\* is the submit button of a file accepted before
C25_RejectionChangesErrorOnly ==
  [][\A f \in Files : RejectsSelection(f) =>
       /\ file' = file
       /\ player' = player
       /\ result' = result
       /\ UploadSubmitDisabled' = UploadSubmitDisabled
       /\ UNCHANGED <<view, activeTab, appResult, text, loading, parsedResult,
                      inflight>>]_vars

\* a selection was turned down while an accepted file was selected, playing
\* past its start, with its result on screen and the button enabled
C25_Witness ==
  /\ error \in {AudioTypeMsg, AudioSizeMsg}
  /\ file # NoFile
  /\ player.audioUrl = ObjectUrl(file)
  /\ player.isPlaying
  /\ player.currentTime > 0
  /\ result # JNull
  /\ ~UploadSubmitDisabled

\* C26: in the audio components the selected file is null or has a MIME type
\* that starts with "audio/", and every POST to an audio endpoint carries
\* such a file
C26_AudioFileOnly ==
  /\ Mounted \in AudioComps => (file = NoFile \/ file.type[1] = "audio")
  /\ \A i \in 1..Len(inflight) :
       inflight[i].comp \in AudioComps =>
         inflight[i].file # NoFile /\ inflight[i].file.type[1] = "audio"

\* an audio file is selected and on its way to an audio endpoint, after a
\* selection of another type was turned down
C26_Witness ==
  /\ Mounted \in AudioComps
  /\ file # NoFile
  /\ error = AudioTypeMsg
  /\ \E i \in 1..Len(inflight) :
       inflight[i].comp = Mounted /\ inflight[i].file = file

\* the three components of parsedResult with the payload field of each
ParsedFields ==
  { <<"priority", K("case_priority_level")>>,
    <<"sentiment", K("sentiment")>>,
    <<"dialogue", K("dialogue_history")>> }

\* C27: in TextInsights a component of parsedResult is non-null only while a
\* result is held, each non-null component is JSON.parse of its field of the
\* result held, and a change of the text sets result and all three components
\* to null
C27_ParsedMatchesResult ==
  /\ [](Mounted = "text" =>
          \A pf \in ParsedFields :
            parsedResult[pf[1]] # JNull =>
              /\ result # JNull
              /\ JSONparseAny(Get(result, pf[2])).ok
              /\ JSONparseAny(Get(result, pf[2])).val = parsedResult[pf[1]])
  /\ [][(view = "text" /\ view' = "text" /\ text' # text) =>
          /\ result' = JNull
          /\ \A pf \in ParsedFields : parsedResult'[pf[1]] = JNull]_vars

\* a payload is held with all three components parsed out of it
C27_Witness ==
  /\ Mounted = "text"
  /\ result # JNull
  /\ \A pf \in ParsedFields : parsedResult[pf[1]] # JNull

\* C28: imageZoom is always a multiple of 0.25 between 0.25 and 3; zooming
\* in at 3 and zooming out at 0.25 leave it as it is, and a reset, a chosen
\* file and a dropped file set it to 1
C28_ZoomWithinBounds ==
  /\ [](/\ preview.imageZoom % 25 = 0
        /\ 25 <= preview.imageZoom
        /\ preview.imageZoom <= 300)
  /\ [][/\ (HandleZoomIn /\ preview.imageZoom = 300) => preview'.imageZoom = 300
        /\ (HandleZoomOut /\ preview.imageZoom = 25) => preview'.imageZoom = 25
        /\ (ResetZoom \/ file' # file) => preview'.imageZoom = 100]_vars

\* the preview of the selected image is zoomed as far in as it goes
C28_Witness ==
  /\ Mounted = "doc"
  /\ file # NoFile
  /\ preview.imageUrl = ObjectUrl(file)
  /\ preview.imageZoom = 300

\* C29: getSentimentColor and getPriorityColor return the colour of the
\* category they are given, whatever its case, and their default colour
\* (#007bff, #6c757d) for any other string; getSpeakerColor returns one of
\* its eight colours for every label, the first one for a label with no digit
C29_ColourLookupsTotal ==
  lookup.stage = "returned" =>
    LET l == ToLowerCase(lookup.input)
        v == lookup.value
    IN CASE lookup.fn = "getSentimentColor" ->
              v = CASE l = <<"p", "o", "s", "i", "t", "i", "v", "e">> -> Colour("#28a745")
                    [] l = <<"n", "e", "g", "a", "t", "i", "v", "e">> -> Colour("#dc3545")
                    [] l = <<"n", "e", "u", "t", "r", "a", "l">> -> Colour("#6c757d")
                    [] OTHER -> Colour("#007bff")
         [] lookup.fn = "getPriorityColor" ->
              v = CASE l \in {<<"u", "r", "g", "e", "n", "t">>, <<"h", "i", "g", "h">>} -> Colour("#dc3545")
                    [] l = <<"m", "e", "d", "i", "u", "m">> -> Colour("#fd7e14")
                    [] l = <<"l", "o", "w">> -> Colour("#28a745")
                    [] OTHER -> Colour("#6c757d")
         [] lookup.fn = "getSpeakerColor" ->
              /\ \E i \in 1..8 : v = Colour(colors[i])
              /\ (\A k \in 1..Len(lookup.input) : ~IsDigit(lookup.input[k]))
                   => v = Colour(colors[1])

====
